---- MODULE Spec2Model ----
(***************************************************************************)
(* TokenizerWrapper of llguidance/_tokenizer.py.                           *)
(*                                                                         *)
(* The wrapped tokenizer (gtokenizer) is an external callable.  It is      *)
(* modelled as an arbitrary deterministic function from typed inputs       *)
(* (bytes or str) to responses (a list of token ids, or a raised error):   *)
(* its answer on an input is chosen the first time the input is presented  *)
(* and remembered in `known`, so that the same input always gets the same  *)
(* answer.  Python strings are sequences of code points, bytes are         *)
(* sequences of byte values, and str.encode("utf-8") is computed byte by   *)
(* byte (it raises UnicodeEncodeError on a lone surrogate).                *)
(***************************************************************************)
EXTENDS Integers, Sequences, FiniteSets, TLC

VARIABLES
    gtokenizer,  \* the wrapped tokenizer's attributes (eos/bos/tokens)
    known,       \* the wrapped tokenizer's answers revealed so far: input -> response
    self,        \* the TokenizerWrapper object's attributes
    pc,          \* "new" | "ready" | "failed" (the constructor raised)
    built,       \* history: the attributes as they were when __init__ returned
    last,        \* history: the last operation, what it invoked and how it ended
    seen,        \* history: one earlier __call__ the observer noted, and its outcome
    other,       \* pair specification: the wrapper built on the text-only tokenizer S
    knownS,      \* pair specification: S's answers on strings that have no UTF-8 form
    lastS,       \* pair specification: the last operation of the wrapper on S
    thr          \* concurrent specification: the frame of each thread inside __call__

vars == <<gtokenizer, known, self, pc, built, last, seen, other, knownS, lastS, thr>>

----------------------------------------------------------------------------
(* Bounds of the model. *)

\* longest text passed to __call__, in code points
MaxLen == 1
\* longest token list the wrapped tokenizer returns
MaxToks == 2
\* number of distinct inputs, beyond those of construction, on which a
\* behaviour reveals the wrapped tokenizer's answer
MaxFresh == 1
\* number of threads calling __call__ in parallel, beyond the first
MaxExtraThreads == 1

\* code points texts are made of: U+00E9 (two UTF-8 bytes) and the lone
\* surrogate U+D800 (no UTF-8 form)
Chars == {233, 55296}
\* token ids the wrapped tokenizer may return
TokenIds == {0, 1}
\* errors the wrapped tokenizer may raise
TokErrors == {"E1", "E2"}

Texts == UNION {[1..n -> Chars] : n \in 0..MaxLen}
TokSeqs == UNION {[1..n -> TokenIds] : n \in 0..MaxToks}

----------------------------------------------------------------------------
(* Python values. *)

\* Optional[TokenId]: the absent value
None == -1

Ok(v) == [kind |-> "ok", toks |-> v, err |-> "none"]
Raise(e) == [kind |-> "raise", toks |-> <<>>, err |-> e]
NoOutcome == [kind |-> "none", toks |-> <<>>, err |-> "none"]

\* what one invocation of the wrapped tokenizer can do
Responses == {Ok(v) : v \in TokSeqs} \cup {Raise(e) : e \in TokErrors}

Bytes(d) == [ty |-> "bytes", data |-> d]
Str(d) == [ty |-> "str", data |-> d]

\* b"test"
ProbeInput == Bytes(<<116, 101, 115, 116>>)

\* "\x02"
PrefixString == <<2>>

IsSurrogate(c) == c >= 55296 /\ c <= 57343

\* one code point as UTF-8
Utf8Char(c) ==
    IF c < 128 THEN <<c>>
    ELSE IF c < 2048 THEN <<192 + (c \div 64), 128 + (c % 64)>>
    ELSE IF c < 65536
         THEN <<224 + (c \div 4096), 128 + ((c \div 64) % 64), 128 + (c % 64)>>
         ELSE <<240 + (c \div 262144), 128 + ((c \div 4096) % 64),
                128 + ((c \div 64) % 64), 128 + (c % 64)>>

RECURSIVE Utf8Bytes(_)
Utf8Bytes(s) == IF s = <<>> THEN <<>> ELSE Utf8Char(Head(s)) \o Utf8Bytes(Tail(s))

\* s.encode("utf-8"): the bytes, or UnicodeEncodeError
Utf8Encode(s) ==
    IF \E i \in 1..Len(s) : IsSurrogate(s[i])
    THEN Raise("UnicodeEncodeError")
    ELSE Ok(Utf8Bytes(s))

\* tokens[:n]
SliceTo(tokens, n) == SubSeq(tokens, 1, IF n < Len(tokens) THEN n ELSE Len(tokens))
\* tokens[n:]
SliceFrom(tokens, n) == SubSeq(tokens, n + 1, Len(tokens))

----------------------------------------------------------------------------
(* TokenizerWrapper. *)

\* the wrapped tokenizers a behaviour may start from
GTokenizers ==
    { [eos_token_id |-> 1, bos_token_id |-> None, tokens |-> <<<<2>>, <<195, 169>>>>],
      [eos_token_id |-> 0, bos_token_id |-> 1, tokens |-> <<<<195>>, <<2, 195>>>>] }

\* the object before __init__ has assigned anything
Blank ==
    [eos_token_id |-> None, bos_token_id |-> None, tokens |-> <<>>,
     accepts_bytes |-> FALSE, prefix_string |-> <<>>, prefix_tokens |-> <<>>]

NoOp == [op |-> "none", text |-> <<>>, invoked |-> <<>>, probe |-> NoOutcome,
         resp |-> NoOutcome, out |-> NoOutcome, again |-> "no"]

\* a variant of EncodeArg that ignores accepts_bytes and always passes the string
EncodeArgText(obj, s) == [kind |-> "ok", arg |-> Str(s), err |-> "none"]

\* _encode_string, up to the invocation: the argument it passes to the
\* wrapped tokenizer, or the error raised while preparing it
EncodeArg(obj, s) ==
    IF obj.accepts_bytes
    THEN LET b == Utf8Encode(s)
         IN IF b.kind = "ok" THEN [kind |-> "ok", arg |-> Bytes(b.toks), err |-> "none"]
            ELSE [kind |-> "raise", arg |-> Bytes(<<>>), err |-> b.err]
    ELSE [kind |-> "ok", arg |-> Str(s), err |-> "none"]

\* the wrapped tokenizer's answers that agree with what is known of it
Answers(kn, arg) == IF arg \in DOMAIN kn THEN {kn[arg]} ELSE Responses

\* an input may be presented when its answer is known or the bound allows a new one
MayAsk(kn, arg) == arg \in DOMAIN kn \/ Cardinality(DOMAIN kn) <= MaxFresh

Learn(kn, arg, r) == IF arg \in DOMAIN kn THEN kn ELSE kn @@ (arg :> r)

\* a variant of StripPrefix that checks the prefix and returns the list unsliced
StripPrefixKeep(obj, tokens) ==
    IF SliceTo(tokens, Len(obj.prefix_tokens)) = obj.prefix_tokens
    THEN Ok(tokens)
    ELSE Raise("AssertionError")

\* a variant of StripPrefix without the assert
StripPrefixNoAssert(obj, tokens) == Ok(SliceFrom(tokens, Len(obj.prefix_tokens)))

\* a variant of StripPrefix that takes the sentinel to cost at least one token
StripPrefixSkipFirst(obj, tokens) ==
    LET n == IF Len(obj.prefix_tokens) = 0 THEN 1 ELSE Len(obj.prefix_tokens)
    IN IF SliceTo(tokens, Len(obj.prefix_tokens)) = obj.prefix_tokens
       THEN Ok(SliceFrom(tokens, n))
       ELSE Raise("AssertionError")

\* __call__ after _encode_string returned tokens: the assert and the slice
StripPrefix(obj, tokens) ==
    IF SliceTo(tokens, Len(obj.prefix_tokens)) = obj.prefix_tokens
    THEN Ok(SliceFrom(tokens, Len(obj.prefix_tokens)))
    ELSE Raise("AssertionError")

\* a variant of CallOutcome that swallows the tokenizer's error
CallOutcomeSwallow(obj, r) == IF r.kind = "ok" THEN StripPrefix(obj, r.toks) ELSE Ok(<<>>)

\* __call__ after _encode_string ended with response r
CallOutcome(obj, r) == IF r.kind = "ok" THEN StripPrefix(obj, r.toks) ELSE r

\* a variant of SelfAfterCall that falls back to the other convention on failure
SelfAfterCallFallback(obj, r) ==
    IF r.kind = "raise" THEN [obj EXCEPT !.accepts_bytes = ~obj.accepts_bytes] ELSE obj

\* a variant of SelfAfterCall that keeps the last token list as the prefix
SelfAfterCallCache(obj, r) ==
    IF r.kind = "ok" THEN [obj EXCEPT !.prefix_tokens = r.toks] ELSE obj

\* the attributes after __call__: it assigns none
SelfAfterCall(obj, r) == obj

\* a variant of ProbeFlag with the two outcomes exchanged
ProbeFlagInverted(r) == r.kind # "ok"

\* the probe of __init__: try gtokenizer(b"test"), a bare except
ProbeFlag(r) == r.kind = "ok"

\* no call noted; `on` says whether the observer notes one at all
NoNote(on) == [on |-> on, set |-> FALSE, text |-> <<>>, out |-> NoOutcome]

\* a thread that is not inside __call__
IdleFrame == [pc |-> "idle", s |-> <<>>, arg |-> Bytes(<<>>), resp |-> NoOutcome,
              out |-> NoOutcome]

Threads == 0..MaxExtraThreads

InitWith(on) ==
    /\ gtokenizer \in GTokenizers
    /\ known = <<>>
    /\ self = Blank
    /\ pc = "new"
    /\ built = Blank
    /\ last = NoOp
    /\ seen = NoNote(on)
    /\ other = Blank
    /\ knownS = <<>>
    /\ lastS = NoOp
    /\ thr = [t \in Threads |-> IdleFrame]

Init == InitWith(FALSE)

\* the attributes __init__ has assigned before it encodes the sentinel
Half(flag) ==
    [eos_token_id |-> gtokenizer.eos_token_id,
     bos_token_id |-> gtokenizer.bos_token_id,
     tokens |-> gtokenizer.tokens,
     accepts_bytes |-> flag,
     prefix_string |-> PrefixString,
     prefix_tokens |-> <<>>]

\* the record of one __init__ that got answer p to the probe and r to the sentinel
InitRecord(arg, p, r) ==
    [op |-> "init", text |-> <<>>, invoked |-> <<ProbeInput, arg>>,
     probe |-> [p EXCEPT !.toks = <<>>], resp |-> r,
     out |-> IF r.kind = "ok" THEN Ok(<<>>) ELSE r, again |-> "no"]

\* the record of one __call__ on s: a is the prepared argument, r the answer
CallRecord(obj, s, a, r, rep) ==
    IF a.kind = "raise"
    THEN [op |-> "call", text |-> s, invoked |-> <<>>, probe |-> NoOutcome,
          resp |-> NoOutcome, out |-> Raise(a.err), again |-> rep]
    ELSE [op |-> "call", text |-> s, invoked |-> <<a.arg>>, probe |-> NoOutcome,
          resp |-> r, out |-> CallOutcome(obj, r), again |-> rep]

\* __init__(gtokenizer)
Construct ==
    /\ pc = "new"
    /\ \E p \in Responses, r \in Responses :
         LET half == Half(ProbeFlag(p))
             a == EncodeArg(half, PrefixString)
         IN /\ a.kind = "ok"
            /\ known' = (a.arg :> r)
            /\ self' = IF r.kind = "ok" THEN [half EXCEPT !.prefix_tokens = r.toks] ELSE half
            /\ pc' = IF r.kind = "ok" THEN "ready" ELSE "failed"
            /\ built' = self'
            /\ last' = InitRecord(a.arg, p, r)
    /\ UNCHANGED <<gtokenizer, seen, other, knownS, lastS, thr>>

\* the observer's note of one earlier call, taken at most once
Note(s, o) ==
    {seen} \cup (IF seen.on /\ ~seen.set
                 THEN {[on |-> TRUE, set |-> TRUE, text |-> s, out |-> o]}
                 ELSE {})

\* is this call a repeat of the noted one, and did another text come between
Again(s) ==
    IF ~(seen.set /\ seen.text = s) THEN "no"
    ELSE IF last.op = "call" /\ last.text # s THEN "after_other" ELSE "yes"

\* __call__(s)
Call(s) ==
    /\ pc = "ready"
    /\ LET a == EncodeArg(self, self.prefix_string \o s)
       IN IF a.kind = "raise"
          THEN /\ last' = CallRecord(self, s, a, NoOutcome, Again(s))
               /\ seen' \in Note(s, last'.out)
               /\ UNCHANGED <<known, self>>
          ELSE /\ MayAsk(known, a.arg)
               /\ \E r \in Answers(known, a.arg) :
                    /\ known' = Learn(known, a.arg, r)
                    /\ self' = SelfAfterCall(self, r)
                    /\ last' = CallRecord(self, s, a, r, Again(s))
                    /\ seen' \in Note(s, last'.out)
    /\ UNCHANGED <<gtokenizer, pc, built, other, knownS, lastS, thr>>

Next ==
    \/ Construct
    \/ \E s \in Texts : Call(s)

Spec == Init /\ [][Next]_vars

\* the same program, with the observer noting one call to compare later calls with
InitRepeat == InitWith(TRUE)

SpecRepeat == InitRepeat /\ [][Next]_vars

----------------------------------------------------------------------------
(* Several threads inside __call__ of one wrapper.  A call is three steps:   *)
(* it prepares the argument (reading prefix_string and accepts_bytes), the   *)
(* wrapped tokenizer answers, and it checks and slices (reading              *)
(* prefix_tokens).                                                           *)

\* arguments of invocations in flight
Pending == {thr[t].arg : t \in {u \in Threads : thr[u].pc = "asking"}}

\* __call__(s) up to the invocation of the wrapped tokenizer
Enter(t, s) ==
    /\ pc = "ready"
    /\ thr[t].pc = "idle"
    /\ LET a == EncodeArg(self, self.prefix_string \o s)
       IN IF a.kind = "raise"
          THEN thr' = [thr EXCEPT ![t] = [IdleFrame EXCEPT !.pc = "done", !.s = s,
                                                           !.out = Raise(a.err)]]
          ELSE /\ Cardinality(DOMAIN known \cup Pending \cup {a.arg}) <= MaxFresh + 1
               /\ thr' = [thr EXCEPT ![t] = [IdleFrame EXCEPT !.pc = "asking", !.s = s,
                                                               !.arg = a.arg]]
    /\ UNCHANGED <<gtokenizer, known, self, pc, built, last, seen, other, knownS, lastS>>

\* the wrapped tokenizer answers the invocation of thread t
Answer(t) ==
    /\ thr[t].pc = "asking"
    /\ \E r \in Answers(known, thr[t].arg) :
         /\ known' = Learn(known, thr[t].arg, r)
         /\ thr' = [thr EXCEPT ![t].pc = "returned", ![t].resp = r]
    /\ UNCHANGED <<gtokenizer, self, pc, built, last, seen, other, knownS, lastS>>

\* the rest of __call__: the error propagates, or the assert and the slice
Finish(t) ==
    /\ thr[t].pc = "returned"
    /\ thr' = [thr EXCEPT ![t].pc = "done", ![t].out = CallOutcome(self, thr[t].resp)]
    /\ self' = SelfAfterCall(self, thr[t].resp)
    /\ UNCHANGED <<gtokenizer, known, pc, built, last, seen, other, knownS, lastS>>

\* the caller of thread t has its outcome
Leave(t) ==
    /\ thr[t].pc = "done"
    /\ thr' = [thr EXCEPT ![t] = IdleFrame]
    /\ UNCHANGED <<gtokenizer, known, self, pc, built, last, seen, other, knownS, lastS>>

NextConc ==
    \/ Construct
    \/ \E t \in Threads, s \in Texts : Enter(t, s)
    \/ \E t \in Threads : Answer(t)
    \/ \E t \in Threads : Finish(t)
    \/ \E t \in Threads : Leave(t)

SpecConc == Init /\ [][NextConc]_vars

----------------------------------------------------------------------------
(* Two wrappers: `self` on a tokenizer B and `other` on a text-only          *)
(* tokenizer S that assigns the same tokens, S(s) = B(s.encode("utf-8")) for  *)
(* every string s that has a UTF-8 form.  `known` holds B's answers; S's      *)
(* answer on a string with a UTF-8 form is B's answer on those bytes, on any  *)
(* other string it is S's own (knownS), and on bytes S raises.                *)

\* where S's answer on arg is kept: B's table at the UTF-8 bytes, or S's own
TiedToB(arg) == arg.ty = "str" /\ \A i \in 1..Len(arg.data) : ~IsSurrogate(arg.data[i])

\* S's answers on arg that agree with what is known of B and of S
AnswersS(kn, knS, arg) ==
    IF TiedToB(arg) THEN Answers(kn, Bytes(Utf8Bytes(arg.data)))
    ELSE IF arg \in DOMAIN knS THEN {knS[arg]}
    ELSE IF arg.ty = "bytes" THEN {Raise(e) : e \in TokErrors}
    ELSE Responses

LearnB(kn, arg, r) == IF TiedToB(arg) THEN Learn(kn, Bytes(Utf8Bytes(arg.data)), r) ELSE kn
LearnS(knS, arg, r) == IF TiedToB(arg) THEN knS ELSE Learn(knS, arg, r)

\* TokenizerWrapper(B) and TokenizerWrapper(S)
ConstructPair ==
    /\ pc = "new"
    /\ \E p \in Responses, e \in TokErrors :
         LET hB == Half(ProbeFlag(p))
             hS == Half(ProbeFlag(Raise(e)))
             aB == EncodeArg(hB, PrefixString)
             aS == EncodeArg(hS, PrefixString)
         IN /\ aB.kind = "ok" /\ aS.kind = "ok"
            /\ \E rB \in Responses :
                 \E rS \in AnswersS((aB.arg :> rB), (ProbeInput :> Raise(e)), aS.arg) :
                    /\ known' = LearnB((aB.arg :> rB), aS.arg, rS)
                    /\ knownS' = LearnS((ProbeInput :> Raise(e)), aS.arg, rS)
                    /\ self' = IF rB.kind = "ok" THEN [hB EXCEPT !.prefix_tokens = rB.toks]
                                ELSE hB
                    /\ other' = IF rS.kind = "ok" THEN [hS EXCEPT !.prefix_tokens = rS.toks]
                                 ELSE hS
                    /\ pc' = IF rB.kind = "ok" /\ rS.kind = "ok" THEN "ready" ELSE "failed"
                    /\ built' = self'
                    /\ last' = InitRecord(aB.arg, p, rB)
                    /\ lastS' = InitRecord(aS.arg, Raise(e), rS)
    /\ UNCHANGED <<gtokenizer, seen, thr>>

\* __call__(s) on both wrappers
CallPair(s) ==
    /\ pc = "ready"
    /\ LET aB == EncodeArg(self, self.prefix_string \o s)
           aS == EncodeArg(other, other.prefix_string \o s)
           askB == IF aB.kind = "ok" THEN {aB.arg} ELSE {}
           askS == IF aS.kind = "ok" THEN {aS.arg} ELSE {}
           inB == askB \cup {Bytes(Utf8Bytes(x.data)) : x \in {y \in askS : TiedToB(y)}}
           inS == {y \in askS : ~TiedToB(y)}
       IN /\ Cardinality(DOMAIN known \cup inB) + Cardinality(DOMAIN knownS \cup inS)
               <= MaxFresh + 2
          /\ \E rB \in (IF aB.kind = "ok" THEN Answers(known, aB.arg) ELSE {NoOutcome}) :
            LET kn1 == IF aB.kind = "ok" THEN Learn(known, aB.arg, rB) ELSE known
            IN \E rS \in (IF aS.kind = "ok" THEN AnswersS(kn1, knownS, aS.arg)
                           ELSE {NoOutcome}) :
                 /\ known' = IF aS.kind = "ok" THEN LearnB(kn1, aS.arg, rS) ELSE kn1
                 /\ knownS' = IF aS.kind = "ok" THEN LearnS(knownS, aS.arg, rS) ELSE knownS
                 /\ self' = IF aB.kind = "ok" THEN SelfAfterCall(self, rB) ELSE self
                 /\ other' = IF aS.kind = "ok" THEN SelfAfterCall(other, rS) ELSE other
                 /\ last' = CallRecord(self, s, aB, rB, "no")
                 /\ lastS' = CallRecord(other, s, aS, rS, "no")
    /\ UNCHANGED <<gtokenizer, pc, built, seen, thr>>

NextPair ==
    \/ ConstructPair
    \/ \E s \in Texts : CallPair(s)

SpecPair == Init /\ [][NextPair]_vars

----------------------------------------------------------------------------
(* Properties of one wrapper, checked under Spec. *)

HasUtf8(s) == \A i \in 1..Len(s) : ~IsSurrogate(s[i])

\* list p is the beginning of list full
StartsWith(full, p) ==
    /\ Len(full) >= Len(p)
    /\ \A i \in 1..Len(p) : full[i] = p[i]

\* C1: when the wrapped tokenizer's encoding of sentinel+t is prefix_tokens
\* followed by rest, __call__(t) returns exactly rest; __call__("") returns
\* the empty list when the encoding equals prefix_tokens.
C1_PrefixStripping ==
    (last.op = "call" /\ last.resp.kind = "ok") =>
        /\ \A rest \in TokSeqs :
              last.resp.toks = self.prefix_tokens \o rest => last.out = Ok(rest)
        /\ (last.text = <<>> /\ last.resp.toks = self.prefix_tokens) => last.out = Ok(<<>>)

C1_Witness ==
    /\ last.op = "call"
    /\ last.resp.kind = "ok"
    /\ Len(self.prefix_tokens) = 1
    /\ last.resp.toks = self.prefix_tokens \o <<0>>
    /\ last.out = Ok(<<0>>)

\* C2: when the first len(prefix_tokens) entries of the encoding of sentinel+t
\* are not prefix_tokens (the encoding may be shorter than prefix_tokens),
\* __call__(t) fails and returns no token list.
C2_FailFast ==
    (last.op = "call" /\ last.resp.kind = "ok"
        /\ ~StartsWith(last.resp.toks, self.prefix_tokens))
    => last.out.kind = "raise"

C2_Witness ==
    /\ last.op = "call"
    /\ last.resp.kind = "ok"
    /\ Len(last.resp.toks) < Len(self.prefix_tokens)
    /\ last.out = Raise("AssertionError")

\* C3: __init__ invokes the wrapped tokenizer once with b"test"; when that
\* invocation returns, accepts_bytes is true; when it raises, accepts_bytes
\* is false and the error does not leave __init__.
C3_ProbeOutcome ==
    last.op = "init" =>
        /\ last.invoked[1] = ProbeInput
        /\ \A i \in 2..Len(last.invoked) : last.invoked[i] # ProbeInput
        /\ last.probe.kind = "ok" => self.accepts_bytes
        /\ last.probe.kind = "raise" =>
              /\ ~self.accepts_bytes
              /\ last.resp.kind = "ok" => (pc = "ready" /\ last.out.kind = "ok")
              /\ pc = "failed" => last.out = last.resp

C3_Witness ==
    /\ last.op = "init"
    /\ last.probe = Raise("E1")
    /\ pc = "ready"
    /\ ~self.accepts_bytes

\* C4: an error the wrapped tokenizer raises on sentinel+text reaches the
\* caller of __call__ unchanged, after one invocation in the convention fixed
\* by __init__, with the attributes as they were.
C4_EncodingFailurePropagates ==
    (last.op = "call" /\ last.resp.kind = "raise") =>
        /\ last.out = last.resp
        /\ Len(last.invoked) = 1
        /\ last.invoked[1].ty = (IF built.accepts_bytes THEN "bytes" ELSE "str")
        /\ self = built

C4_Witness ==
    /\ last.op = "call"
    /\ last.resp = Raise("E2")
    /\ last.out = Raise("E2")

\* C7: after __init__, whatever calls were made, every attribute holds the
\* value it had when __init__ returned, and eos_token_id, bos_token_id and
\* tokens are the wrapped tokenizer's.
C7_Immutable ==
    pc = "ready" =>
        /\ self = built
        /\ self.prefix_string = PrefixString
        /\ self.eos_token_id = gtokenizer.eos_token_id
        /\ self.bos_token_id = gtokenizer.bos_token_id
        /\ self.tokens = gtokenizer.tokens

C7_Witness ==
    /\ last.op = "call"
    /\ last.resp.kind = "raise"
    /\ self.bos_token_id = None
    /\ Len(self.prefix_tokens) = 2

\* C10: when prefix_tokens is empty the prefix check cannot fail: whenever
\* the wrapped tokenizer returns, __call__(t) returns its whole list.
C10_EmptyPrefix ==
    (last.op = "call" /\ self.prefix_tokens = <<>> /\ last.resp.kind = "ok")
    => last.out = Ok(last.resp.toks)

C10_Witness ==
    /\ last.op = "call"
    /\ self.prefix_tokens = <<>>
    /\ last.text # <<>>
    /\ last.resp.kind = "ok"
    /\ Len(last.resp.toks) = 2
    /\ last.out = last.resp

\* C5: a later __call__ on the text of a noted earlier call ends as that call
\* did, whatever calls came between.
C5_Repeatable ==
    (last.op = "call" /\ seen.set /\ seen.text = last.text) => last.out = seen.out

C5_Witness ==
    /\ last.op = "call"
    /\ last.again = "after_other"
    /\ last.out.kind = "ok"
    /\ last.out.toks # <<>>

\* C9 as stated: __init__ makes two invocations, the probe and then the
\* sentinel; every __call__ makes exactly one, with the UTF-8 bytes of
\* sentinel+text when accepts_bytes is true and the string otherwise.
C9_ExactlyOneInvocation ==
    /\ last.op = "init" =>
          last.invoked = <<ProbeInput, IF self.accepts_bytes THEN Bytes(<<2>>) ELSE Str(<<2>>)>>
    /\ last.op = "call" =>
          /\ Len(last.invoked) = 1
          /\ last.invoked[1] = IF self.accepts_bytes
                               THEN Bytes(Utf8Bytes(PrefixString \o last.text))
                               ELSE Str(PrefixString \o last.text)

\* C9, amended: as above, except that a __call__ whose sentinel+text has no
\* UTF-8 form, on a wrapper with accepts_bytes true, raises UnicodeEncodeError
\* and makes no invocation.
C9_NoProbingAfterConstruction ==
    /\ last.op = "init" =>
          last.invoked = <<ProbeInput, IF self.accepts_bytes THEN Bytes(<<2>>) ELSE Str(<<2>>)>>
    /\ last.op = "call" =>
          IF self.accepts_bytes /\ ~HasUtf8(PrefixString \o last.text)
          THEN last.invoked = <<>> /\ last.out = Raise("UnicodeEncodeError")
          ELSE /\ Len(last.invoked) = 1
               /\ last.invoked[1] = IF self.accepts_bytes
                                    THEN Bytes(Utf8Bytes(PrefixString \o last.text))
                                    ELSE Str(PrefixString \o last.text)

C9_Witness ==
    /\ last.op = "call"
    /\ self.accepts_bytes
    /\ last.text = <<233>>
    /\ last.invoked = <<Bytes(<<2, 195, 169>>)>>
    /\ last.resp.kind = "raise"

----------------------------------------------------------------------------
(* Properties of parallel calls, checked under SpecConc. *)

\* what __call__(s) returns when run alone on the wrapper as built, read off
\* the wrapped tokenizer's answers
AloneOutcome(s) ==
    LET whole == PrefixString \o s
        arg == IF built.accepts_bytes THEN Bytes(Utf8Bytes(whole)) ELSE Str(whole)
    IN IF built.accepts_bytes /\ ~HasUtf8(whole) THEN Raise("UnicodeEncodeError")
       ELSE IF known[arg].kind = "raise" THEN known[arg]
       ELSE IF StartsWith(known[arg].toks, built.prefix_tokens)
            THEN Ok(SubSeq(known[arg].toks, Len(built.prefix_tokens) + 1,
                           Len(known[arg].toks)))
            ELSE Raise("AssertionError")

\* C8: under every interleaving, a finished call has the outcome it would
\* have alone, and the attributes are those __init__ left.
C8_ConcurrentCalls ==
    /\ pc = "ready" => self = built
    /\ \A t \in Threads : thr[t].pc = "done" => thr[t].out = AloneOutcome(thr[t].s)

C8_Witness ==
    /\ thr[0].pc = "done"
    /\ thr[0].out.kind = "ok"
    /\ thr[0].out.toks # <<>>
    /\ thr[1].pc = "returned"
    /\ thr[1].s # thr[0].s
    /\ thr[1].resp.kind = "ok"

----------------------------------------------------------------------------
(* Properties of the two wrappers, checked under SpecPair. *)

\* the same token list, or a failure on both sides
SameOutcome(a, b) ==
    \/ a.kind = "ok" /\ b.kind = "ok" /\ a.toks = b.toks
    \/ a.kind = "raise" /\ b.kind = "raise"

\* B is byte-accepting: the probe b"test" was answered without error
ByteAccepting ==
    \/ last.op = "init" /\ last.probe.kind = "ok"
    \/ last.op = "call" /\ self.accepts_bytes

\* C6 as stated: for a byte-accepting B and a text-only S that assign the
\* same tokens, the two wrappers have equal prefix_tokens and __call__(t) ends
\* the same way on both, for every text t.
C6_ConventionIndependent ==
    ByteAccepting =>
        /\ last.op = "init" =>
              /\ SameOutcome(last.out, lastS.out)
              /\ self.prefix_tokens = other.prefix_tokens
        /\ last.op = "call" => SameOutcome(last.out, lastS.out)

\* C6, amended: the same, for every text t such that sentinel+t has a UTF-8
\* form.
C6_ConventionIndependentEncodable ==
    ByteAccepting =>
        /\ last.op = "init" =>
              /\ SameOutcome(last.out, lastS.out)
              /\ self.prefix_tokens = other.prefix_tokens
        /\ (last.op = "call" /\ HasUtf8(PrefixString \o last.text)) =>
              SameOutcome(last.out, lastS.out)

C6_Witness ==
    /\ last.op = "call"
    /\ self.accepts_bytes /\ ~other.accepts_bytes
    /\ last.text = <<233>>
    /\ last.invoked = <<Bytes(<<2, 195, 169>>)>>
    /\ lastS.invoked = <<Str(<<2, 233>>)>>
    /\ last.out.kind = "ok" /\ last.out.toks # <<>>
    /\ lastS.out = last.out

====
